---- MODULE Spec2Model ----
(***************************************************************************)
(* Control flow of the Tauri application bootstrap (main.rs) and of the   *)
(* Lynx integration shim (lynx_integration.rs).                           *)
(*                                                                         *)
(* The program is one sequential thread.  pc is its position.  The two    *)
(* external libraries are opaque, so each call into them is a step whose  *)
(* outcome is chosen among the outcomes a Rust call can have:             *)
(*   - tauri::Builder::run builds the application (which may fail and     *)
(*     make run return Err), creates the configured windows, invokes the  *)
(*     setup closure, then runs the event loop;                           *)
(*   - Lynx::run returns, never returns, or unwinds with a panic.         *)
(***************************************************************************)
EXTENDS Naturals, Sequences, FiniteSets

VARIABLES
    pc,           \* position of the main thread
    config,       \* window labels of tauri::generate_context!() (fixed at build time)
    lynxFate,     \* what the opaque Lynx::run does once called
    windows,      \* labels of the windows the application currently has
    opt,          \* Option<Window> returned by app.get_window("main")
    main_window,  \* the local main_window of the setup closure
    window,       \* the parameter window of initialize_lynx
    lynx,         \* the local lynx of initialize_lynx (0: not constructed)
    liveLynx,     \* Lynx instances constructed and not yet dropped
    lynxCreated,  \* number of Lynx::new() calls
    runCalls,     \* calls of Lynx::run so far: <<instance, window>>
    initCalls,    \* number of calls of initialize_lynx
    setupClosures,\* number of setup closures registered on the builder
    setupCalls,   \* number of times the setup closure was entered
    lookups,      \* number of get_window calls
    setupResult,  \* value the setup closure returned: "none" until it returns
    runResult,    \* value tauri's run returned to main: "none" until it returns
    panicSite,    \* where the process panicked: "none" if it did not
    panicMsg,     \* the panic message
    events,       \* events the event loop has dispatched
    trace         \* history of the steps taken, in order

vars == << pc, config, lynxFate, windows, opt, main_window, window, lynx,
           liveLynx, lynxCreated, runCalls, initCalls, setupClosures,
           setupCalls, lookups, setupResult, runResult, panicSite, panicMsg,
           events, trace >>

\* Bound on the events the event loop dispatches before it may only exit.
MaxEvents == 2

\* Window labels a configuration may declare.
Labels == {"main", "splash", "settings"}

\* Behaviours of the opaque Lynx::run.
Fates == {"returns", "diverges", "panics"}

\* The label the setup closure looks up.
MainLabel == "main"

\* Option<Window>
None == << >>
Some(w) == << w >>

\* Panic messages.
UnwrapMsg == "called Option::unwrap() on a None value"
ExpectMsg == "error while running tauri application"
LynxMsg == "panic inside Lynx::run"

\* app.get_window(label): Some(window) if a window with that label exists.
GetWindow(ws, label) == IF label \in ws THEN Some(label) ELSE None

Init ==
    /\ pc = "start"
    /\ config \in SUBSET Labels
    /\ lynxFate \in Fates
    /\ windows = {}
    /\ opt = None
    /\ main_window = "none"
    /\ window = "none"
    /\ lynx = 0
    /\ liveLynx = {}
    /\ lynxCreated = 0
    /\ runCalls = << >>
    /\ initCalls = 0
    /\ setupClosures = 0
    /\ setupCalls = 0
    /\ lookups = 0
    /\ setupResult = "none"
    /\ runResult = "none"
    /\ panicSite = "none"
    /\ panicMsg = "none"
    /\ events = 0
    /\ trace = << >>

\* A panic on the main thread at site: the process terminates.
Panic(site, msg) ==
    /\ pc' = "panicked"
    /\ panicSite' = site
    /\ panicMsg' = msg
    /\ liveLynx' = {}

----
\* main.rs

\* tauri::Builder::default()
BuilderDefault ==
    /\ pc = "start"
    /\ pc' = "builder"
    /\ trace' = Append(trace, "builder")
    /\ UNCHANGED << config, lynxFate, windows, opt, main_window, window, lynx,
                    liveLynx, lynxCreated, runCalls, initCalls, setupClosures,
                    setupCalls, lookups, setupResult, runResult, panicSite,
                    panicMsg, events >>

\* .setup(|app| { ... }): the closure is stored, not run.
RegisterSetup ==
    /\ pc = "builder"
    /\ pc' = "registered"
    /\ setupClosures' = setupClosures + 1
    /\ trace' = Append(trace, "setup_registered")
    /\ UNCHANGED << config, lynxFate, windows, opt, main_window, window, lynx,
                    liveLynx, lynxCreated, runCalls, initCalls, setupCalls,
                    lookups, setupResult, runResult, panicSite, panicMsg,
                    events >>

\* .run(context): the framework builds the application and creates the
\* windows the configuration declares.
RunBuildOk ==
    /\ pc = "registered"
    /\ pc' = "built"
    /\ windows' = config
    /\ trace' = Append(trace, "run")
    /\ UNCHANGED << config, lynxFate, opt, main_window, window, lynx, liveLynx,
                    lynxCreated, runCalls, initCalls, setupClosures, setupCalls,
                    lookups, setupResult, runResult, panicSite, panicMsg,
                    events >>

\* .run(context): building the application fails, run returns Err.
RunBuildErr ==
    /\ pc = "registered"
    /\ pc' = "run_returned"
    /\ runResult' = "Err"
    /\ trace' = Append(trace, "run")
    /\ UNCHANGED << config, lynxFate, windows, opt, main_window, window, lynx,
                    liveLynx, lynxCreated, runCalls, initCalls, setupClosures,
                    setupCalls, lookups, setupResult, panicSite, panicMsg,
                    events >>

\* The framework invokes the registered setup closure.
SetupEnter ==
    /\ pc = "built"
    /\ setupCalls < setupClosures
    /\ pc' = "lookup"
    /\ setupCalls' = setupCalls + 1
    /\ trace' = Append(trace, "setup_begin")
    /\ UNCHANGED << config, lynxFate, windows, opt, main_window, window, lynx,
                    liveLynx, lynxCreated, runCalls, initCalls, setupClosures,
                    lookups, setupResult, runResult, panicSite, panicMsg,
                    events >>

\* app.get_window("main")
LookupWindow ==
    /\ pc = "lookup"
    /\ pc' = "unwrap"
    /\ opt' = GetWindow(windows, MainLabel)
    /\ lookups' = lookups + 1
    /\ trace' = Append(trace, IF GetWindow(windows, MainLabel) = None
                              THEN "lookup_none" ELSE "lookup_some")
    /\ UNCHANGED << config, lynxFate, windows, main_window, window, lynx,
                    liveLynx, lynxCreated, runCalls, initCalls, setupClosures,
                    setupCalls, setupResult, runResult, panicSite, panicMsg,
                    events >>

\* Mutant of Unwrap: a missing window is replaced by a default handle.
UnwrapOrDefault ==
    /\ pc = "unwrap"
    /\ pc' = "call_init"
    /\ main_window' = IF opt = None THEN "splash" ELSE opt[1]
    /\ UNCHANGED << config, lynxFate, windows, opt, window, lynx, liveLynx,
                    lynxCreated, runCalls, initCalls, setupClosures, setupCalls,
                    lookups, setupResult, runResult, panicSite, panicMsg,
                    events, trace >>

\* Mutant of Unwrap: a missing window makes the closure look it up again.
UnwrapOrRetry ==
    /\ pc = "unwrap"
    /\ lookups < 3
    /\ pc' = IF opt = None THEN "lookup" ELSE "call_init"
    /\ main_window' = IF opt = None THEN main_window ELSE opt[1]
    /\ UNCHANGED << config, lynxFate, windows, opt, window, lynx, liveLynx,
                    lynxCreated, runCalls, initCalls, setupClosures, setupCalls,
                    lookups, setupResult, runResult, panicSite, panicMsg,
                    events, trace >>

\* .unwrap(); let main_window = ...
Unwrap ==
    /\ pc = "unwrap"
    /\ IF opt = None
       THEN /\ Panic("unwrap", UnwrapMsg)
            /\ UNCHANGED main_window
       ELSE /\ pc' = "call_init"
            /\ main_window' = opt[1]
            /\ UNCHANGED << liveLynx, panicSite, panicMsg >>
    /\ UNCHANGED << config, lynxFate, windows, opt, window, lynx, lynxCreated,
                    runCalls, initCalls, setupClosures, setupCalls, lookups,
                    setupResult, runResult, events, trace >>

\* lynx_integration::initialize_lynx(&main_window): the call binds the
\* parameter window.
CallInitializeLynx ==
    /\ pc = "call_init"
    /\ pc' = "lynx_new"
    /\ window' = main_window
    /\ initCalls' = initCalls + 1
    /\ trace' = Append(trace, "init_call")
    /\ UNCHANGED << config, lynxFate, windows, opt, main_window, lynx, liveLynx,
                    lynxCreated, runCalls, setupClosures, setupCalls, lookups,
                    setupResult, runResult, panicSite, panicMsg, events >>

----
\* lynx_integration.rs

\* Mutant of LynxNew: a second instance is constructed and the first kept.
LynxNewTwice ==
    /\ pc = "lynx_new"
    /\ pc' = "lynx_run"
    /\ lynx' = lynxCreated + 2
    /\ lynxCreated' = lynxCreated + 2
    /\ liveLynx' = liveLynx \cup {lynxCreated + 1, lynxCreated + 2}
    /\ UNCHANGED << config, lynxFate, windows, opt, main_window, window,
                    runCalls, initCalls, setupClosures, setupCalls, lookups,
                    setupResult, runResult, panicSite, panicMsg, events,
                    trace >>

\* let lynx = Lynx::new();
LynxNew ==
    /\ pc = "lynx_new"
    /\ pc' = "lynx_run"
    /\ lynx' = lynxCreated + 1
    /\ lynxCreated' = lynxCreated + 1
    /\ liveLynx' = liveLynx \cup {lynxCreated + 1}
    /\ UNCHANGED << config, lynxFate, windows, opt, main_window, window,
                    runCalls, initCalls, setupClosures, setupCalls, lookups,
                    setupResult, runResult, panicSite, panicMsg, events,
                    trace >>

\* Mutant of LynxRunCall: run is started without waiting for it to return.
LynxRunDetached ==
    /\ pc = "lynx_run"
    /\ pc' = "init_ret"
    /\ runCalls' = Append(runCalls, << lynx, window >>)
    /\ trace' = Append(trace, "lynx_run")
    /\ UNCHANGED << config, lynxFate, windows, opt, main_window, window, lynx,
                    liveLynx, lynxCreated, initCalls, setupClosures, setupCalls,
                    lookups, setupResult, runResult, panicSite, panicMsg,
                    events >>

\* lynx.run(window): control enters the library.
LynxRunCall ==
    /\ pc = "lynx_run"
    /\ pc' = "in_run"
    /\ runCalls' = Append(runCalls, << lynx, window >>)
    /\ trace' = Append(trace, "lynx_run")
    /\ UNCHANGED << config, lynxFate, windows, opt, main_window, window, lynx,
                    liveLynx, lynxCreated, initCalls, setupClosures, setupCalls,
                    lookups, setupResult, runResult, panicSite, panicMsg,
                    events >>

\* lynx.run(window) returns.
LynxRunReturns ==
    /\ pc = "in_run"
    /\ lynxFate = "returns"
    /\ pc' = "init_ret"
    /\ trace' = Append(trace, "lynx_run_returned")
    /\ UNCHANGED << config, lynxFate, windows, opt, main_window, window, lynx,
                    liveLynx, lynxCreated, runCalls, initCalls, setupClosures,
                    setupCalls, lookups, setupResult, runResult, panicSite,
                    panicMsg, events >>

\* lynx.run(window) unwinds with a panic raised inside the library.
LynxRunPanics ==
    /\ pc = "in_run"
    /\ lynxFate = "panics"
    /\ Panic("lynx", LynxMsg)
    /\ UNCHANGED << config, lynxFate, windows, opt, main_window, window, lynx,
                    lynxCreated, runCalls, initCalls, setupClosures, setupCalls,
                    lookups, setupResult, runResult, events, trace >>

\* Mutant of InitializeLynxReturn: a check added after run aborts.
InitializeLynxAbort ==
    /\ pc = "init_ret"
    /\ Panic("initialize_lynx", "lynx stopped")
    /\ UNCHANGED << config, lynxFate, windows, opt, main_window, window, lynx,
                    lynxCreated, runCalls, initCalls, setupClosures, setupCalls,
                    lookups, setupResult, runResult, events, trace >>

\* The closing brace of initialize_lynx: lynx goes out of scope.
InitializeLynxReturn ==
    /\ pc = "init_ret"
    /\ pc' = "setup_ok"
    /\ liveLynx' = liveLynx \ {lynx}
    /\ trace' = Append(trace, "init_return")
    /\ UNCHANGED << config, lynxFate, windows, opt, main_window, window, lynx,
                    lynxCreated, runCalls, initCalls, setupClosures, setupCalls,
                    lookups, setupResult, runResult, panicSite, panicMsg,
                    events >>

----
\* main.rs, continued

\* Mutant of SetupReturnOk: the closure loops back to the lookup.
SetupLoop ==
    /\ pc = "setup_ok"
    /\ lookups < 3
    /\ pc' = "lookup"
    /\ UNCHANGED << config, lynxFate, windows, opt, main_window, window, lynx,
                    liveLynx, lynxCreated, runCalls, initCalls, setupClosures,
                    setupCalls, lookups, setupResult, runResult, panicSite,
                    panicMsg, events, trace >>

\* Mutant of SetupReturnOk: the closure reports an error value.
SetupReturnErr ==
    /\ pc = "setup_ok"
    /\ pc' = "setup_done"
    /\ setupResult' = "Err"
    /\ trace' = Append(trace, "setup_end")
    /\ UNCHANGED << config, lynxFate, windows, opt, main_window, window, lynx,
                    liveLynx, lynxCreated, runCalls, initCalls, setupClosures,
                    setupCalls, lookups, runResult, panicSite, panicMsg,
                    events >>

\* Ok(())
SetupReturnOk ==
    /\ pc = "setup_ok"
    /\ pc' = "setup_done"
    /\ setupResult' = "Ok"
    /\ trace' = Append(trace, "setup_end")
    /\ UNCHANGED << config, lynxFate, windows, opt, main_window, window, lynx,
                    liveLynx, lynxCreated, runCalls, initCalls, setupClosures,
                    setupCalls, lookups, runResult, panicSite, panicMsg,
                    events >>

\* .run(context), after setup returned Ok: the event loop starts.
EventLoopStart ==
    /\ pc = "setup_done"
    /\ setupResult = "Ok"
    /\ pc' = "event_loop"
    /\ trace' = Append(trace, "event_loop")
    /\ UNCHANGED << config, lynxFate, windows, opt, main_window, window, lynx,
                    liveLynx, lynxCreated, runCalls, initCalls, setupClosures,
                    setupCalls, lookups, setupResult, runResult, panicSite,
                    panicMsg, events >>

\* The event loop dispatches one event.
EventLoopStep ==
    /\ pc = "event_loop"
    /\ events < MaxEvents
    /\ events' = events + 1
    /\ UNCHANGED << pc, config, lynxFate, windows, opt, main_window, window,
                    lynx, liveLynx, lynxCreated, runCalls, initCalls,
                    setupClosures, setupCalls, lookups, setupResult, runResult,
                    panicSite, panicMsg, trace >>

\* The event loop ends and run returns Ok(()).
RunReturnsOk ==
    /\ pc = "event_loop"
    /\ pc' = "run_returned"
    /\ runResult' = "Ok"
    /\ UNCHANGED << config, lynxFate, windows, opt, main_window, window, lynx, liveLynx,
                    lynxCreated, runCalls, initCalls, setupClosures, setupCalls,
                    lookups, setupResult, panicSite, panicMsg, events, trace >>

\* The event loop ends the process itself; run never returns to main.
RunExitsProcess ==
    /\ pc = "event_loop"
    /\ pc' = "exited"
    /\ UNCHANGED << config, lynxFate, windows, opt, main_window, window, lynx, liveLynx,
                    lynxCreated, runCalls, initCalls, setupClosures, setupCalls,
                    lookups, setupResult, runResult, panicSite, panicMsg,
                    events, trace >>

\* Mutant of Expect: the result of run is discarded.
ExpectIgnored ==
    /\ pc = "run_returned"
    /\ pc' = "done"
    /\ UNCHANGED << config, lynxFate, windows, opt, main_window, window, lynx,
                    liveLynx, lynxCreated, runCalls, initCalls, setupClosures,
                    setupCalls, lookups, setupResult, runResult, panicSite,
                    panicMsg, events, trace >>

\* .expect("error while running tauri application"); then main returns.
Expect ==
    /\ pc = "run_returned"
    /\ IF runResult = "Err"
       THEN Panic("expect", ExpectMsg)
       ELSE /\ pc' = "done"
            /\ UNCHANGED << liveLynx, panicSite, panicMsg >>
    /\ UNCHANGED << config, lynxFate, windows, opt, main_window, window, lynx,
                    lynxCreated, runCalls, initCalls, setupClosures, setupCalls,
                    lookups, setupResult, runResult, events, trace >>

Next ==
    \/ BuilderDefault
    \/ RegisterSetup
    \/ RunBuildOk
    \/ RunBuildErr
    \/ SetupEnter
    \/ LookupWindow
    \/ Unwrap
    \/ CallInitializeLynx
    \/ LynxNew
    \/ LynxRunCall
    \/ LynxRunReturns
    \/ LynxRunPanics
    \/ InitializeLynxReturn
    \/ SetupReturnOk
    \/ EventLoopStart
    \/ EventLoopStep
    \/ RunReturnsOk
    \/ RunExitsProcess
    \/ Expect

Spec == Init /\ [][Next]_vars

\* The thread is sequential: whenever it has a next step it takes one.  A
\* Lynx::run that diverges has no step, and the event loop may exit at any
\* time but is not required to.
FairSpec == Spec /\ WF_vars(Next)

----
\* Properties

\* The step e is in the history.
Happened(e) == \E i \in DOMAIN trace : trace[i] = e

\* Every occurrence of b in the history has an earlier occurrence of a.
Before(a, b) ==
    \A j \in DOMAIN trace :
        trace[j] = b => \E i \in 1..(j - 1) : trace[i] = a

\* Positions after initialize_lynx has returned to the setup closure.
AfterInit == {"setup_ok", "setup_done", "event_loop", "run_returned",
              "done", "exited"}

\* Positions after the setup closure has returned to the framework.
AfterSetup == {"setup_done", "event_loop", "run_returned", "done", "exited"}

\* C1: the steps happen in the order builder, setup callback, lookup of
\* "main", Lynx's run on the looked-up window, event loop; Lynx's run is
\* never invoked before a successful lookup and the event loop never
\* proceeds before the setup callback has finished.
C1_FixedOrder ==
    /\ Before("builder", "setup_registered")
    /\ Before("setup_registered", "setup_begin")
    /\ Before("setup_begin", "lookup_some")
    /\ Before("setup_begin", "lookup_none")
    /\ Before("lookup_some", "lynx_run")
    /\ Before("lynx_run", "setup_end")
    /\ Before("setup_end", "event_loop")
    /\ \A i \in DOMAIN runCalls : opt = Some(runCalls[i][2])
    /\ pc = "event_loop" => setupResult = "Ok"

\* C1 witness: the event loop runs after Lynx's run was given the window.
C1_Witness ==
    /\ pc = "event_loop"
    /\ runCalls = << << 1, MainLabel >> >>

\* C2: if no window named "main" exists when the setup callback runs, the
\* program panics at the lookup: no Lynx instance is constructed, run is
\* never invoked, the callback does not return Ok, the lookup is not retried
\* and no other path is taken.
C2_AbortAtLookup ==
    (lookups > 0 /\ MainLabel \notin windows) =>
        /\ pc \in {"unwrap", "panicked"}
        /\ pc = "panicked" => (panicSite = "unwrap" /\ panicMsg = UnwrapMsg)
        /\ lookups = 1
        /\ initCalls = 0
        /\ lynxCreated = 0
        /\ runCalls = << >>
        /\ setupResult = "none"
        /\ runResult = "none"
        /\ ~Happened("event_loop")

\* C2 witness: the panic at the lookup, with other windows present.
C2_Witness ==
    /\ pc = "panicked"
    /\ panicSite = "unwrap"
    /\ windows = {"splash", "settings"}

C4_InitializeLynx ==
    /\ lynxCreated <= initCalls
    /\ Len(runCalls) <= lynxCreated
    /\ Cardinality(liveLynx) <= 1
    /\ \A i \in DOMAIN runCalls : runCalls[i] = << i, main_window >>
    /\ pc \in {"lynx_run", "in_run", "init_ret"} => liveLynx = {lynx}
    /\ pc \in {"in_run", "init_ret"} =>
          (lynxCreated = initCalls /\ Len(runCalls) = initCalls)
    /\ pc \in AfterInit =>
          /\ initCalls > 0 => (lynxCreated = initCalls /\ Len(runCalls) = initCalls)
          /\ liveLynx = {}
    /\ Before("lynx_run_returned", "init_return")
    /\ Before("init_call", "lynx_run")

\* C4 witness: initialize_lynx has returned after one run on the window.
C4_Witness ==
    /\ pc = "setup_ok"
    /\ initCalls = 1
    /\ Len(runCalls) = 1

\* C5: a single setup callback is registered, so the callback runs at most
\* once, "main" is looked up at most once and Lynx's run is invoked at most
\* once per process.
C5_AtMostOnce ==
    /\ setupClosures <= 1
    /\ setupCalls <= 1
    /\ lookups <= 1
    /\ initCalls <= 1
    /\ Len(runCalls) <= 1

\* C5 witness: the event loop has dispatched events after the one run.
C5_Witness ==
    /\ pc = "event_loop"
    /\ events > 0
    /\ setupCalls = 1
    /\ lookups = 1
    /\ Len(runCalls) = 1

\* C6: once the window is found and Lynx's run has returned, the setup
\* callback returns Ok; it never reports an error value, so a callback that
\* was entered and is over either returned Ok, panicked at the lookup, or was
\* left because Lynx's run did not return.
C6_SetupOutcomes ==
    /\ setupResult \in {"none", "Ok"}
    /\ (Happened("lookup_some") /\ Happened("lynx_run_returned")) =>
          (pc \in {"init_ret", "setup_ok"} \/ setupResult = "Ok")
    /\ pc \in AfterSetup => (setupCalls > 0 => setupResult = "Ok")
    /\ (setupCalls > 0 /\ pc = "panicked") =>
          \/ panicSite = "unwrap" /\ opt = None
          \/ panicSite = "lynx" /\ ~Happened("lynx_run_returned")
    /\ setupResult = "Ok" =>
          (Happened("lookup_some") /\ Happened("lynx_run_returned"))

\* C6 witness: the callback has just returned Ok.
C6_Witness ==
    /\ pc = "setup_done"
    /\ setupResult = "Ok"

\* C7, safety part: the setup callback completes and the event loop is
\* reached only if Lynx's run has returned.
C7_Synchronous ==
    /\ (setupResult # "none" \/ Happened("event_loop") \/ pc \in AfterInit) =>
          (setupCalls > 0 => Happened("lynx_run_returned"))
    /\ lynxFate # "returns" =>
          (setupResult = "none" /\ ~Happened("event_loop")
             /\ ~Happened("setup_end"))

\* C7: Lynx's run is called synchronously inside the setup callback: if it
\* never returns the callback never completes and the event loop is never
\* reached; if the window exists and Lynx's run terminates, the event loop
\* is eventually reached.
C7_EventLoopOnlyAfterRun ==
    /\ []C7_Synchronous
    /\ (pc = "lookup" /\ MainLabel \in windows /\ lynxFate = "returns")
          ~> Happened("event_loop")

\* C7 witness: control is inside a Lynx run that never returns.
C7_Witness ==
    /\ pc = "in_run"
    /\ lynxFate = "diverges"
    /\ setupResult = "none"

\* C8: if the framework's run returns an error, main panics with the
\* message "error while running tauri application"; main returns normally
\* only when run returned success.
C8_ExpectOnRun ==
    /\ pc = "done" => runResult = "Ok"
    /\ runResult = "Err" =>
          /\ pc \in {"run_returned", "panicked"}
          /\ pc = "panicked" => (panicSite = "expect" /\ panicMsg = ExpectMsg)
    /\ (pc = "panicked" /\ panicSite = "expect") => runResult = "Err"

\* C8 witness: main has panicked on the error returned by run.
C8_Witness ==
    /\ runResult = "Err"
    /\ pc = "panicked"
    /\ panicMsg = ExpectMsg

====
